---- MODULE Spec2Model ----
(***************************************************************************)
(* MultiComboBox (smarthr-ui): the selection toggle, the Focused/Blurred   *)
(* state machine, the text entry, and the three collaborating hooks        *)
(* (useOptions, useFocusControl, useListBox).  One action is one DOM       *)
(* event or one host update, together with the render and the layout      *)
(* effect that follow it.                                                  *)
(***************************************************************************)
EXTENDS Integers, Sequences, FiniteSets, TLC

(* ------------------------------ bounds -------------------------------- *)

\* Longest selectedItems array the host supplies or the toggle builds.
MaxSel == 2

\* Longest text in the text entry.
MaxInput == 2

(* ------------------------------ inputs -------------------------------- *)

\* Labels are sequences of characters, so that String.includes is computed.
Apple == <<"A", "p", "p", "l", "e">>

Banana == <<"B", "a", "n", "a", "n", "a">>

\* Characters the user types.  "a" occurs inside Banana and, as a capital
\* only, in Apple.
Alphabet == {"a"}

\* The items prop: the catalog of selectable items.
items == << [label |-> Apple, value |-> "v1"], [label |-> Banana, value |-> "v2"] >>

\* deletable?: boolean of a selectedItems entry.
DeletableFlags == {"undefined", "true", "false"}

\* Entries the host puts into selectedItems on its own: a catalog item
\* unflagged and pinned, and a deletable entry that shares only its label
\* with a catalog item.
SelectedPool ==
  { [label |-> Apple, value |-> "v1", deletable |-> "undefined"],
    [label |-> Apple, value |-> "v1", deletable |-> "false"],
    [label |-> Banana, value |-> "v9", deletable |-> "true"] }

RECURSIVE SeqsUpTo(_, _)
SeqsUpTo(S, n) ==
  IF n = 0 THEN {<<>>}
  ELSE LET shorter == SeqsUpTo(S, n - 1)
       IN shorter \cup {Append(s, x) : s \in {t \in shorter : Len(t) = n - 1}, x \in S}

Texts == SeqsUpTo(Alphabet, MaxInput)

Min(S) == CHOOSE x \in S : \A y \in S : x <= y

(* ----------------------------- callbacks ------------------------------ *)

\* One callback invocation: its name and its argument (an item, an array
\* or a label; the unused ones are empty).
Emit(cb, item, list, label) == [cb |-> cb, item |-> item, list |-> list, label |-> label]

EmitItem(cb, item) == Emit(cb, <<item>>, <<>>, <<>>)

EmitList(cb, list) == Emit(cb, <<>>, list, <<>>)

EmitNone(cb) == Emit(cb, <<>>, <<>>, <<>>)

\* A ComboBoxItem as it is passed to the callbacks: label and value.
AsItem(s) == [label |-> s.label, value |-> s.value]

(* ------------------------- selection toggle --------------------------- *)

NotSameItem_labelOnly(selected, item) == selected.label # item.label

\* The filter predicate of handleDelete.
NotSameItem(selected, item) == selected.label # item.label \/ selected.value # item.value

SameItem_either(item, selected) == item.label = selected.label \/ item.value = selected.value

\* The find predicate of handleSelect.
SameItem(item, selected) == item.label = selected.label /\ item.value = selected.value

withoutItem_firstOnly(sel, item) ==
  LET I == {i \in 1..Len(sel) : ~NotSameItem(sel[i], item)}
  IN IF I = {} THEN sel
     ELSE SubSeq(sel, 1, Min(I) - 1) \o SubSeq(sel, Min(I) + 1, Len(sel))

\* selectedItems.filter(...) of handleDelete.
withoutItem(sel, item) == SelectSeq(sel, LAMBDA s : NotSameItem(s, item))

handleDelete_swapped(sel, item) ==
  << EmitList("onChangeSelected", withoutItem(sel, item)), EmitItem("onDelete", item) >>

\* handleDelete: the callbacks it fires, in order.
handleDelete(sel, item) ==
  << EmitItem("onDelete", item), EmitList("onChangeSelected", withoutItem(sel, item)) >>

\* selectedItems.find(...): the first matching entry, or none.
matchedSelectedItem(sel, selected) ==
  LET I == {i \in 1..Len(sel) : SameItem(sel[i], selected)}
  IN IF I = {} THEN <<>> ELSE <<sel[Min(I)]>>

isDeletable_onlyTrue(entry) == entry.deletable = "true"

\* matchedSelectedItem.deletable !== false
isDeletable(entry) == entry.deletable # "false"

\* selectedItems.concat(selected): the candidate carries no deletable flag.
concatItem(sel, selected) ==
  Append(sel, [label |-> selected.label, value |-> selected.value, deletable |-> "undefined"])

handleSelect_prepend(sel, selected) ==
  LET m == matchedSelectedItem(sel, selected)
  IN IF m # <<>>
     THEN IF isDeletable(m[1]) THEN handleDelete(sel, selected) ELSE <<>>
     ELSE << EmitItem("onSelect", selected),
             EmitList("onChangeSelected",
                      <<[label |-> selected.label, value |-> selected.value,
                         deletable |-> "undefined"]>> \o sel) >>

handleSelect_pinnedDeletes(sel, selected) ==
  LET m == matchedSelectedItem(sel, selected)
  IN IF m # <<>>
     THEN handleDelete(sel, selected)
     ELSE << EmitItem("onSelect", selected),
             EmitList("onChangeSelected", concatItem(sel, selected)) >>

\* handleSelect: the callbacks it fires, in order.
handleSelect(sel, selected) ==
  LET m == matchedSelectedItem(sel, selected)
  IN IF m # <<>>
     THEN IF isDeletable(m[1]) THEN handleDelete(sel, selected) ELSE <<>>
     ELSE << EmitItem("onSelect", selected),
             EmitList("onChangeSelected", concatItem(sel, selected)) >>

(* --------------------------- Option Model ----------------------------- *)

\* String.includes: case-sensitive substring; the empty text is in every label.
Includes(label, text) ==
  \/ text = <<>>
  \/ \E i \in 1..(Len(label) - Len(text) + 1) : SubSeq(label, i, i + Len(text) - 1) = text

\* An entry of the dropdown: a catalog item, or the synthetic "create" entry.
Option(item, isCreatable) == [item |-> item, isCreatable |-> isCreatable]

\* The synthetic entry exists when creatable, the text is not empty and no
\* catalog label equals it.
isInputValueAddable(its, creat, text) ==
  creat /\ text # <<>> /\ \A i \in 1..Len(its) : its[i].label # text

RECURSIVE toOptions(_)
toOptions(its) ==
  IF its = <<>> THEN <<>> ELSE <<Option(its[1], FALSE)>> \o toOptions(Tail(its))

\* useOptions: the Visible Option Set of (items, selected, creatable, inputValue).
\* Selected items stay in the list.
useOptions(its, sel, creat, text) ==
  toOptions(SelectSeq(its, LAMBDA it : Includes(it.label, text)))
    \o (IF isInputValueAddable(its, creat, text)
        THEN <<Option([label |-> text, value |-> "new"], TRUE)>>
        ELSE <<>>)

(* ------------------------- Focus Coordinator -------------------------- *)

\* The Focus Index value that stands for "logical focus is on the text entry".
Sentinel == -1

focusPrev_wraps(idx, n) ==
  IF idx = Sentinel \/ idx - 1 < 0 THEN (IF n > 0 THEN n - 1 ELSE Sentinel) ELSE idx - 1

\* focusPrevDeletionButton: one step toward chip 0, clamped at 0; from the
\* text entry, to the last chip.
focusPrev(idx, n) ==
  IF idx = Sentinel THEN (IF n > 0 THEN n - 1 ELSE Sentinel)
  ELSE IF idx - 1 < 0 THEN 0 ELSE idx - 1

focusNext_toTextEntry(idx, n) == Sentinel

focusNext_entersChips(idx, n) ==
  IF idx = Sentinel THEN (IF n > 0 THEN 0 ELSE Sentinel)
  ELSE IF idx + 1 < n THEN idx + 1 ELSE Sentinel

\* focusNextDeletionButton: one step toward the text entry; from the last
\* chip, to the text entry.
focusNext(idx, n) ==
  IF idx = Sentinel THEN Sentinel
  ELSE IF idx + 1 < n THEN idx + 1 ELSE Sentinel

clampIndex_none(idx, n) == idx

\* The Focus Index against the chip count of the current render.
clampIndex(idx, n) ==
  IF idx = Sentinel \/ n = 0 THEN Sentinel
  ELSE IF idx > n - 1 THEN n - 1 ELSE idx

(* ------------------------- Listbox Controller ------------------------- *)

\* Position of the active option in the list (0: none, or not in the list).
indexOf(opts, act) ==
  LET I == {i \in 1..Len(opts) : act = <<opts[i]>>}
  IN IF I = {} THEN 0 ELSE Min(I)

moveActiveDown_wraps(opts, act) ==
  IF opts = <<>> THEN <<>>
  ELSE IF indexOf(opts, act) = 0 \/ indexOf(opts, act) = Len(opts) THEN <<opts[1]>>
  ELSE <<opts[indexOf(opts, act) + 1]>>

\* Arrow-down: forward one option, stopping at the last.
moveActiveDown(opts, act) ==
  IF opts = <<>> THEN <<>>
  ELSE IF indexOf(opts, act) = 0 THEN <<opts[1]>>
  ELSE IF indexOf(opts, act) < Len(opts) THEN <<opts[indexOf(opts, act) + 1]>>
  ELSE act

\* Arrow-up: backward one option, stopping at the first.
moveActiveUp(opts, act) ==
  IF opts = <<>> \/ indexOf(opts, act) = 0 THEN <<>>
  ELSE IF indexOf(opts, act) > 1 THEN <<opts[indexOf(opts, act) - 1]>>
  ELSE act

listBoxOnAdd_alsoSelects(sel, label) ==
  <<Emit("onAdd", <<>>, <<>>, label)>> \o handleSelect(sel, [label |-> label, value |-> "new"])

\* useListBox({ onAdd, ... }): the host's onAdd is handed to the controller as it is.
listBoxOnAdd(sel, label) == <<Emit("onAdd", <<>>, <<>>, label)>>

\* useListBox({ onSelect: handleSelect, ... })
listBoxOnSelect(sel, item) == handleSelect(sel, item)

\* commit: the synthetic entry goes to onAdd with its label, every other
\* entry to onSelect.
commitOption(sel, opt) ==
  IF opt.isCreatable THEN listBoxOnAdd(sel, opt.item.label) ELSE listBoxOnSelect(sel, opt.item)

(* ------------------------------- state -------------------------------- *)

VARIABLES
  creatable,              \* prop
  disabled,               \* prop
  isInputControlled,      \* controlledInputValue !== undefined
  controlledInputValue,   \* prop inputValue, when supplied
  selectedItems,          \* prop, owned by the host
  isFocused,              \* useState(false)
  uncontrolledInputValue, \* useState('')
  isComposing,            \* useState(false)
  focusedIndex,           \* Focus Index of useFocusControl
  activeOption,           \* Active Option of useListBox: <<>> or <<option>>
  domFocus,               \* where the DOM focus is: "out", "input" or "chip"
  emitted,                \* callbacks fired by the last event, in order
  committed,              \* the option the last event committed: <<>> or <<option>>
  clamped,                \* the last render moved the Focus Index into the chip range
  trip,                   \* select/re-select round trip under way
  walk,                   \* Arrow-left then Arrow-right, and the Focus Index it started from
  focusLog                \* onFocus minus onBlur so far, and whether they have alternated

props == <<creatable, disabled, isInputControlled>>

vars ==
  << creatable, disabled, isInputControlled, controlledInputValue, selectedItems,
     isFocused, uncontrolledInputValue, isComposing, focusedIndex, activeOption,
     domFocus, emitted, committed, clamped, trip, walk, focusLog >>

inputValue_uncontrolledOnly == uncontrolledInputValue

\* const inputValue = isInputControlled ? controlledInputValue : uncontrolledInputValue
inputValue == IF isInputControlled THEN controlledInputValue ELSE uncontrolledInputValue

options_unfiltered == useOptions(items, selectedItems, creatable, <<>>)

\* const { options } = useOptions({ items, selected: selectedItems, creatable, inputValue })
options == useOptions(items, selectedItems, creatable, inputValue)

\* The Active Option the controller reports: none while the dropdown is closed.
reportedActiveOption == IF isFocused THEN activeOption ELSE <<>>

chipCount_items(sel) == Len(items)

\* useFocusControl(selectedItems.length)
chipCount(sel) == Len(sel)

\* A chip shows its delete button unless its item is pinned.
hasDeleteButton(entry) == entry.deletable # "false"

NoTrip == [phase |-> 0, orig |-> <<>>, cand |-> <<>>]

NoWalk == [phase |-> 0, start |-> Sentinel]

Init ==
  /\ creatable \in BOOLEAN
  /\ disabled \in BOOLEAN
  /\ isInputControlled \in BOOLEAN
  /\ controlledInputValue = <<>>
  /\ selectedItems \in SeqsUpTo(SelectedPool, MaxSel)
  /\ isFocused = FALSE
  /\ uncontrolledInputValue = <<>>
  /\ isComposing = FALSE
  /\ focusedIndex = Sentinel
  /\ activeOption = <<>>
  /\ domFocus = "out"
  /\ emitted = <<>>
  /\ committed = <<>>
  /\ clamped = FALSE
  /\ trip = NoTrip
  /\ walk = NoWalk
  /\ focusLog = [count |-> 0, alternates |-> TRUE]

(* ------------------------ handlers of one event ----------------------- *)

\* What the handlers of one event have done so far.  They read the props
\* and state of the render they were created in (the unprimed variables)
\* and queue state updates; h carries the queued values.
Handling(dom) ==
  [foc |-> isFocused, idx |-> focusedIndex, dom |-> dom, act |-> activeOption, em |-> <<>>,
   walk |-> NoWalk]

\* focus: onFocus, then setIsFocused(true).
focus(h) == [h EXCEPT !.em = Append(@, EmitNone("onFocus")), !.foc = TRUE]

blur_unguarded(h) ==
  [h EXCEPT !.em = Append(@, EmitNone("onBlur")), !.foc = FALSE, !.idx = Sentinel]

blur_noReset(h) ==
  IF ~isFocused THEN h
  ELSE [h EXCEPT !.em = Append(@, EmitNone("onBlur")), !.foc = FALSE]

\* blur: nothing unless focused; onBlur, setIsFocused(false), resetDeletionButtonFocus.
blur(h) ==
  IF ~isFocused THEN h
  ELSE [h EXCEPT !.em = Append(@, EmitNone("onBlur")), !.foc = FALSE, !.idx = Sentinel]

\* resetDeletionButtonFocus
resetDeletionButtonFocus(h) == [h EXCEPT !.idx = Sentinel]

\* onFocus of the text entry: reset the coordinator, and focus() unless focused.
inputOnFocus(h) ==
  IF ~isFocused THEN focus(resetDeletionButtonFocus(h)) ELSE resetDeletionButtonFocus(h)

\* inputRef.current?.focus(): the DOM focus moves to the text entry, whose
\* onFocus handler runs when the focus was elsewhere.  A disabled input
\* takes no focus.
focusInput(h) ==
  IF disabled \/ h.dom = "input" THEN h ELSE inputOnFocus([h EXCEPT !.dom = "input"])

\* The coordinator transfers the DOM focus to the delete button of chip i,
\* when that chip has one.
focusChip(h, i) ==
  [h EXCEPT !.idx = i,
            !.dom = IF i \in 0..(Len(selectedItems) - 1) /\ hasDeleteButton(selectedItems[i + 1])
                    THEN "chip" ELSE @]

\* focusPrevDeletionButton
focusPrevDeletionButton(h) == focusChip(h, focusPrev(focusedIndex, chipCount(selectedItems)))

\* focusNextDeletionButton: past the last chip the text entry takes the focus.
focusNextDeletionButton(h) ==
  IF focusedIndex # Sentinel /\ focusNext(focusedIndex, chipCount(selectedItems)) = Sentinel
  THEN focusInput(resetDeletionButtonFocus(h))
  ELSE focusChip(h, focusNext(focusedIndex, chipCount(selectedItems)))

listBoxOptions_unfiltered == options_unfiltered

\* useListBox({ options, ..., isExpanded: isFocused }): the list the controller navigates.
listBoxOptions == options

\* The option Enter commits: the active one, when the dropdown is open.
enterOption == IF isFocused THEN activeOption ELSE <<>>

\* handleKeyDown of useListBox: no work while the dropdown is closed.
handleListBoxKeyDown(key, h) ==
  IF ~isFocused THEN h
  ELSE IF key \in {"Down", "ArrowDown"}
       THEN [h EXCEPT !.act = moveActiveDown(listBoxOptions, activeOption)]
  ELSE IF key \in {"Up", "ArrowUp"}
       THEN [h EXCEPT !.act = moveActiveUp(listBoxOptions, activeOption)]
  ELSE IF key = "Enter" /\ activeOption # <<>>
       THEN [h EXCEPT !.em = @ \o commitOption(selectedItems, activeOption[1])]
  ELSE h

handleKeyDown_tabNoBlur(key, h) ==
  IF isComposing THEN h
  ELSE IF key \in {"Escape", "Esc"} THEN handleListBoxKeyDown(key, blur(h))
  ELSE IF key = "Tab"
       THEN handleListBoxKeyDown(key, IF isFocused THEN focusInput(h) ELSE h)
  ELSE IF key \in {"Left", "ArrowLeft"}
       THEN handleListBoxKeyDown(key, focusPrevDeletionButton(h))
  ELSE IF key \in {"Right", "ArrowRight"}
       THEN handleListBoxKeyDown(key, focusNextDeletionButton(h))
  ELSE handleListBoxKeyDown(key, resetDeletionButtonFocus(focusInput(h)))

handleKeyDown_whileComposing(key, h) ==
  IF key \in {"Escape", "Esc"} THEN handleListBoxKeyDown(key, blur(h))
  ELSE IF key = "Tab"
       THEN handleListBoxKeyDown(key, blur(IF isFocused THEN focusInput(h) ELSE h))
  ELSE IF key \in {"Left", "ArrowLeft"}
       THEN handleListBoxKeyDown(key, focusPrevDeletionButton(h))
  ELSE IF key \in {"Right", "ArrowRight"}
       THEN handleListBoxKeyDown(key, focusNextDeletionButton(h))
  ELSE handleListBoxKeyDown(key, resetDeletionButtonFocus(focusInput(h)))

handleKeyDown_otherKeyNoReset(key, h) ==
  IF isComposing THEN h
  ELSE IF key \in {"Escape", "Esc"} THEN handleListBoxKeyDown(key, blur(h))
  ELSE IF key = "Tab"
       THEN handleListBoxKeyDown(key, blur(IF isFocused THEN focusInput(h) ELSE h))
  ELSE IF key \in {"Left", "ArrowLeft"}
       THEN handleListBoxKeyDown(key, focusPrevDeletionButton(h))
  ELSE IF key \in {"Right", "ArrowRight"}
       THEN handleListBoxKeyDown(key, focusNextDeletionButton(h))
  ELSE handleListBoxKeyDown(key, focusInput(h))

\* handleKeyDown of the widget.
handleKeyDown(key, h) ==
  IF isComposing THEN h
  ELSE IF key \in {"Escape", "Esc"} THEN handleListBoxKeyDown(key, blur(h))
  ELSE IF key = "Tab"
       THEN handleListBoxKeyDown(key, blur(IF isFocused THEN focusInput(h) ELSE h))
  ELSE IF key \in {"Left", "ArrowLeft"}
       THEN handleListBoxKeyDown(key, focusPrevDeletionButton(h))
  ELSE IF key \in {"Right", "ArrowRight"}
       THEN handleListBoxKeyDown(key, focusNextDeletionButton(h))
  ELSE handleListBoxKeyDown(key, resetDeletionButtonFocus(focusInput(h)))

containerOnClick_anyClick(onDeleteButton, h) ==
  IF ~disabled /\ ~isFocused THEN focus(h) ELSE h

\* onClick of the container, for a click that is not on an option.
containerOnClick(onDeleteButton, h) ==
  IF ~onDeleteButton /\ ~disabled /\ ~isFocused THEN focus(h) ELSE h

(* ------------------------- render and effects ------------------------- *)

\* Does any chip in sel show a delete button?
anyDeleteButton(sel) == \E i \in 1..Len(sel) : hasDeleteButton(sel[i])

\* The array of the last onChangeSelected in em, or none.
changeSelectedOf(em) ==
  LET I == {i \in 1..Len(em) : em[i].cb = "onChangeSelected"}
  IN IF I = {} THEN <<>> ELSE <<em[CHOOSE i \in I : \A j \in I : j <= i].list>>

layoutEffectRuns_focusOnly(selNew, foc1) == foc1 # isFocused

\* The dependencies of the layout effect: isFocused and selectedItems.
layoutEffectRuns(selNew, foc1) == selNew \/ foc1 # isFocused

layoutEffectText_keeps(runs, unc1) == unc1

\* The layout effect on the text: uncontrolled text is cleared.
layoutEffectText(runs, unc1) == IF runs /\ ~isInputControlled THEN <<>> ELSE unc1

\* The log of onFocus and onBlur after the callbacks em: the count goes up
\* with onFocus and down with onBlur; an onFocus when it is 1, or an onBlur
\* when it is 0, is out of turn, and the log stops there.
RECURSIVE logAfter(_, _)
logAfter(log, em) ==
  IF em = <<>> \/ ~log.alternates THEN log
  ELSE IF Head(em).cb = "onFocus"
       THEN logAfter([count |-> 1, alternates |-> log.count = 0], Tail(em))
  ELSE IF Head(em).cb = "onBlur"
       THEN logAfter([count |-> 0, alternates |-> log.count = 1], Tail(em))
  ELSE logAfter(log, Tail(em))

\* Is some entry of sel the item, by label and value?
isSelectedIn(sel, item) ==
  \E i \in 1..Len(sel) : sel[i].label = item.label /\ sel[i].value = item.value

\* The round trip of the toggle, with a host that applies every
\* onChangeSelected: phase 1 after the toggle of an unselected catalog item,
\* phase 2 after the next toggle of the same item.  ignored: the host left an
\* onChangeSelected unapplied; selNew: it supplied a new array.
tripAfter(option, ignored, selNew) ==
  IF option = <<>> \/ option[1].isCreatable
  THEN (IF trip.phase = 1 /\ ~selNew /\ ~ignored THEN trip ELSE NoTrip)
  ELSE IF ignored THEN NoTrip
  ELSE IF trip.phase = 1 /\ trip.cand = <<option[1].item>> THEN [trip EXCEPT !.phase = 2]
  ELSE IF ~isSelectedIn(selectedItems, option[1].item)
       THEN [phase |-> 1, orig |-> selectedItems, cand |-> <<option[1].item>>]
  ELSE NoTrip

\* The render after an event and its layout effect.  h: what the handlers
\* queued; option: the option they committed, if any; sel1, selNew: the
\* selectedItems of the render and whether the host supplied a new array;
\* unc1, ctl1: the texts.
Render(h, option, ignored, sel1, selNew, unc1, ctl1, comp1) ==
  LET runs == layoutEffectRuns(selNew, h.foc)
      unc2 == layoutEffectText(runs, unc1)
      focuses == runs /\ h.foc /\ ~disabled
      idx2 == IF focuses /\ h.dom # "input" THEN Sentinel ELSE h.idx
      text2 == IF isInputControlled THEN ctl1 ELSE unc2
  IN /\ isFocused' = h.foc
     /\ selectedItems' = sel1
     /\ uncontrolledInputValue' = unc2
     /\ controlledInputValue' = ctl1
     /\ isComposing' = comp1
     /\ domFocus' = IF focuses THEN "input"
                    ELSE IF h.dom = "chip" /\ ~anyDeleteButton(sel1) THEN "out"
                    ELSE h.dom
     /\ focusedIndex' = clampIndex(idx2, chipCount(sel1))
     /\ clamped' = (clampIndex(idx2, chipCount(sel1)) # idx2)
     /\ committed' = option
     /\ activeOption' = IF selNew \/ text2 # inputValue \/ h.foc # isFocused
                        THEN <<>> ELSE h.act
     /\ emitted' = h.em
     /\ trip' = tripAfter(option, ignored, selNew)
     /\ walk' = h.walk
     /\ focusLog' = logAfter(focusLog, h.em)
     /\ UNCHANGED props

\* The render after an event whose onChangeSelected, if any, the host
\* applies or ignores.
RenderSelected(h, option, apply) ==
  LET chg == changeSelectedOf(h.em)
      applied == apply /\ chg # <<>>
  IN /\ apply => chg # <<>>
     /\ Render(h, option, chg # <<>> /\ ~apply,
               IF applied THEN chg[1] ELSE selectedItems, applied,
               uncontrolledInputValue, controlledInputValue, isComposing)

(* ------------------------------ events -------------------------------- *)

\* The keys pressed; "a" stands for every key the widget has no branch for.
\* (The legacy names "Esc", "Left", "Right", "Down", "Up" take the branches
\* of their modern names.)
Keys == {"Escape", "Tab", "ArrowLeft", "ArrowRight", "ArrowDown", "ArrowUp", "Enter", "a"}

\* The toggle appends to selectedItems; the arrays stay within MaxSel.
withinBound(em) == \A i \in 1..Len(em) : Len(em[i].list) <= MaxSel

\* A click inside the widget, on neither a delete button nor an option: on
\* the text entry (shown only while focused), or on the area around it.
ClickContainerOf(onInput) ==
  /\ onInput => isFocused /\ ~disabled
  /\ LET h0 == IF onInput THEN focusInput(Handling(domFocus)) ELSE Handling("out")
     IN RenderSelected(containerOnClick(FALSE, h0), <<>>, FALSE)

ClickContainer == \E onInput \in BOOLEAN : ClickContainerOf(onInput)

\* The handlers of a click on the delete button of chip i (0-based):
\* MultiSelectedItem calls onDelete={handleDelete} with its item, and the
\* click bubbles to the container.
clickDeleteButton(i) ==
  containerOnClick(TRUE, [Handling("chip") EXCEPT
                            !.em = handleDelete(selectedItems, AsItem(selectedItems[i + 1]))])

ClickDeleteButtonOf(i, apply) ==
  /\ ~disabled
  /\ hasDeleteButton(selectedItems[i + 1])
  /\ RenderSelected(clickDeleteButton(i), <<>>, apply)

ClickDeleteButton ==
  \E i \in 0..(Len(selectedItems) - 1), apply \in BOOLEAN : ClickDeleteButtonOf(i, apply)

\* The handlers of a click on an option of the open dropdown: it is committed.
clickOption(opt) == [Handling(domFocus) EXCEPT !.em = commitOption(selectedItems, opt)]

ClickOptionOf(k, apply) ==
  /\ isFocused
  /\ withinBound(clickOption(options[k]).em)
  /\ RenderSelected(clickOption(options[k]), <<options[k]>>, apply)

ClickOption == \E k \in 1..Len(options), apply \in BOOLEAN : ClickOptionOf(k, apply)

\* useOuterClick([outerRef, listBoxRef], blur): a click outside both.
OuterClick == RenderSelected(blur(Handling("out")), <<>>, FALSE)

\* The text entry receives the DOM focus from the user (Tab into it).
InputFocus ==
  /\ ~disabled
  /\ domFocus # "input"
  /\ RenderSelected(focusInput(Handling(domFocus)), <<>>, FALSE)

\* A delete button receives the DOM focus from the user (Tab onto it).
ChipFocus ==
  /\ ~disabled
  /\ domFocus # "chip"
  /\ anyDeleteButton(selectedItems)
  /\ RenderSelected(Handling("chip"), <<>>, FALSE)

\* The Arrow-left, Arrow-right pair under way after a keydown: phase 1 after
\* an Arrow-left that was handled, phase 2 after the Arrow-right that follows
\* it at once; start is the Focus Index before the Arrow-left.
walkAfter(key) ==
  IF isComposing THEN NoWalk
  ELSE IF key \in {"Left", "ArrowLeft"}
       THEN [phase |-> 1, start |-> focusedIndex]
  ELSE IF key \in {"Right", "ArrowRight"} /\ walk.phase = 1
       THEN [walk EXCEPT !.phase = 2]
  ELSE NoWalk

\* The option a keydown commits, if any.
committedBy(key) == IF ~isComposing /\ key = "Enter" THEN enterOption ELSE <<>>

\* A keydown inside the widget.  After Tab the browser moves the DOM focus
\* on: out of the widget, or to a delete button.
KeyDownOf(key, apply, tabTo) ==
  /\ domFocus # "out"
  /\ tabTo = "chip" => key = "Tab" /\ anyDeleteButton(selectedItems)
  /\ LET h1 == handleKeyDown(key, Handling(domFocus))
         h2 == IF key = "Tab" THEN [h1 EXCEPT !.dom = tabTo] ELSE h1
     IN /\ withinBound(h2.em)
        /\ RenderSelected([h2 EXCEPT !.walk = walkAfter(key)], committedBy(key), apply)

KeyDown ==
  \E key \in Keys, apply \in BOOLEAN, tabTo \in {"out", "chip"} : KeyDownOf(key, apply, tabTo)

\* The handlers of onChange of the text entry.
inputOnChange(text) ==
  [Handling(domFocus) EXCEPT !.em = << Emit("onChange", <<>>, <<>>, text),
                                       Emit("onChangeInput", <<>>, <<>>, text) >>]

\* onChange of the text entry: a character typed or erased.  In controlled
\* mode the host applies the new text or keeps its own.
ChangeOf(text, apply) ==
  /\ ~disabled
  /\ domFocus = "input"
  /\ \/ \E c \in Alphabet : text = Append(inputValue, c)
     \/ inputValue # <<>> /\ text = SubSeq(inputValue, 1, Len(inputValue) - 1)
  /\ apply <=> isInputControlled
  /\ Render(inputOnChange(text), <<>>, FALSE, selectedItems, FALSE,
            IF ~isInputControlled THEN text ELSE uncontrolledInputValue,
            IF apply THEN text ELSE controlledInputValue,
            isComposing)

Change == \E text \in Texts, apply \in BOOLEAN : ChangeOf(text, apply)

\* onCompositionStart
CompositionStart ==
  /\ ~disabled
  /\ domFocus = "input"
  /\ ~isComposing
  /\ Render(Handling(domFocus), <<>>, FALSE, selectedItems, FALSE,
            uncontrolledInputValue, controlledInputValue, TRUE)

\* onCompositionEnd
CompositionEnd ==
  /\ isComposing
  /\ Render(Handling(domFocus), <<>>, FALSE, selectedItems, FALSE,
            uncontrolledInputValue, controlledInputValue, FALSE)

\* Without chip i (0-based).
removeAt(sel, i) == SubSeq(sel, 1, i) \o SubSeq(sel, i + 2, Len(sel))

\* The host removes a chip on its own.
HostRemoveOf(i) ==
  Render(Handling(domFocus), <<>>, FALSE, removeAt(selectedItems, i), TRUE,
         uncontrolledInputValue, controlledInputValue, isComposing)

HostRemove == \E i \in 0..(Len(selectedItems) - 1) : HostRemoveOf(i)

\* The host adds a chip on its own.
HostAppendOf(entry) ==
  /\ Len(selectedItems) < MaxSel
  /\ Render(Handling(domFocus), <<>>, FALSE, Append(selectedItems, entry), TRUE,
            uncontrolledInputValue, controlledInputValue, isComposing)

HostAppend == \E entry \in SelectedPool : HostAppendOf(entry)

\* The host changes a controlled inputValue.
HostSetInputOf(text) ==
  /\ isInputControlled
  /\ text # controlledInputValue
  /\ Render(Handling(domFocus), <<>>, FALSE, selectedItems, FALSE,
            uncontrolledInputValue, text, isComposing)

HostSetInput == \E text \in Texts : HostSetInputOf(text)

Next ==
  \/ ClickContainer
  \/ ClickDeleteButton
  \/ ClickOption
  \/ OuterClick
  \/ InputFocus
  \/ ChipFocus
  \/ KeyDown
  \/ Change
  \/ CompositionStart
  \/ CompositionEnd
  \/ HostRemove
  \/ HostAppend
  \/ HostSetInput

Spec == Init /\ [][Next]_vars

(* ============================== claims ================================ *)

Range(seq) == {seq[i] : i \in 1..Len(seq)}

CountCb(em, cb) == Cardinality({i \in 1..Len(em) : em[i].cb = cb})

\* The first entry of sel that is the item (by label and value) is pinned.
FirstMatchPinned(sel, item) ==
  \E i \in 1..Len(sel) :
    /\ sel[i].label = item.label /\ sel[i].value = item.value
    /\ sel[i].deletable = "false"
    /\ \A j \in 1..(i - 1) : ~(sel[j].label = item.label /\ sel[j].value = item.value)

\* sel without every entry that is the item (by label and value).
Minus(sel, item) == SelectSeq(sel, LAMBDA e : ~(e.label = item.label /\ e.value = item.value))

\* sel with the item at the end.
Plus(sel, item) == sel \o <<[label |-> item.label, value |-> item.value, deletable |-> "undefined"]>>

\* The last event committed a catalog option (the toggle ran on its item).
Toggled == committed # <<>> /\ ~committed[1].isCreatable

(* ------------------------------- C1 ----------------------------------- *)

\* C1: when the toggle runs on an item no selectedItems entry equals by
\* (label, value), it fires exactly onSelect(item) and then
\* onChangeSelected(selectedItems followed by the item); no onDelete.
C1_SelectAppends ==
  [][(Toggled' /\ ~isSelectedIn(selectedItems, committed'[1].item))
       => emitted' = << EmitItem("onSelect", committed'[1].item),
                        EmitList("onChangeSelected", Plus(selectedItems, committed'[1].item)) >>]_vars

\* A select was fired on a non-empty selection, and the host applied it.
C1_Witness ==
  /\ Toggled
  /\ Len(emitted) = 2
  /\ emitted[1].cb = "onSelect"
  /\ emitted[2].cb = "onChangeSelected"
  /\ Len(emitted[2].list) = 2
  /\ selectedItems = emitted[2].list

(* ------------------------------- C2 ----------------------------------- *)

\* C2: when the toggle runs on an item that a selectedItems entry equals by
\* (label, value), and that entry (the first one that equals it) is not
\* flagged deletable: false, it fires exactly onDelete(item) and then
\* onChangeSelected(selectedItems without the entries equal to the item by
\* label and value); no onSelect.
C2_ReselectDeletes ==
  [][(/\ Toggled'
      /\ isSelectedIn(selectedItems, committed'[1].item)
      /\ ~FirstMatchPinned(selectedItems, committed'[1].item))
       => emitted' = << EmitItem("onDelete", committed'[1].item),
                        EmitList("onChangeSelected", Minus(selectedItems, committed'[1].item)) >>]_vars

\* One of two chips was removed by re-selecting its item; the chip that
\* shares only the label with it stayed.
C2_Witness ==
  /\ Toggled
  /\ Len(emitted) = 2
  /\ emitted[1].cb = "onDelete"
  /\ emitted[2].cb = "onChangeSelected"
  /\ Len(emitted[2].list) = 1
  /\ emitted[2].list[1].label = committed[1].item.label
  /\ selectedItems = emitted[2].list

(* ------------------------------- C3 ----------------------------------- *)

widgetState ==
  << selectedItems, isFocused, uncontrolledInputValue, controlledInputValue, isComposing,
     focusedIndex, activeOption, domFocus >>

\* C3: when the toggle runs on an item whose matching selectedItems entry
\* is flagged deletable: false, no callback is fired and the selection, the
\* Focused state, the text and the Active Option are unchanged; a click on
\* the option changes no widget state at all (an Enter keydown has, before
\* it reaches the toggle, moved the focus to the text entry).
C3_PinnedNoOp ==
  [][(Toggled' /\ FirstMatchPinned(selectedItems, committed'[1].item))
       => /\ emitted' = <<>>
          /\ UNCHANGED << selectedItems, isFocused, uncontrolledInputValue,
                          controlledInputValue, isComposing, activeOption >>
          /\ (\E k \in 1..Len(options) : ClickOptionOf(k, FALSE)) => UNCHANGED widgetState]_vars

\* The toggle ran on a pinned item.
C3_Witness ==
  /\ Toggled
  /\ FirstMatchPinned(selectedItems, committed[1].item)
  /\ emitted = <<>>
  /\ isFocused

(* ------------------------------- C4 ----------------------------------- *)

SelectionCallbacks == {"onSelect", "onDelete", "onChangeSelected"}

\* What the toggle fires for an item.
ToggleOf(sel, item) ==
  IF FirstMatchPinned(sel, item) THEN <<>>
  ELSE IF isSelectedIn(sel, item)
       THEN << EmitItem("onDelete", item), EmitList("onChangeSelected", Minus(sel, item)) >>
  ELSE << EmitItem("onSelect", item), EmitList("onChangeSelected", Plus(sel, item)) >>

\* This step is the toggle on a catalog option.
C4_ToggleStep == Toggled' /\ emitted' = ToggleOf(selectedItems, committed'[1].item)

\* This step is a click on the delete button of a chip that is not pinned.
C4_ChipDeleteStep ==
  /\ committed' = <<>>
  /\ \E i \in 1..Len(selectedItems) :
       /\ selectedItems[i].deletable # "false"
       /\ emitted' = << EmitItem("onDelete", AsItem(selectedItems[i])),
                        EmitList("onChangeSelected", Minus(selectedItems, selectedItems[i])) >>

\* C4 as stated: every onDelete, onSelect and onChangeSelected comes from
\* the toggle applied to a candidate option.
C4_SoleMutationPath ==
  (\E n \in 1..Len(emitted) : emitted[n].cb \in SelectionCallbacks) => Toggled

\* C4 as amended: every onSelect comes from the toggle; every onDelete and
\* onChangeSelected comes from the toggle or from a click on the delete
\* button of a chip; and every onDelete names an item that a selectedItems
\* entry not flagged deletable: false equals.
C4_TwoMutationPaths ==
  [][\A n \in 1..Len(emitted') :
       /\ emitted'[n].cb = "onSelect" => C4_ToggleStep
       /\ emitted'[n].cb \in {"onDelete", "onChangeSelected"}
            => C4_ToggleStep \/ C4_ChipDeleteStep
       /\ emitted'[n].cb = "onDelete"
            => \E i \in 1..Len(selectedItems) :
                 /\ selectedItems[i].label = emitted'[n].item[1].label
                 /\ selectedItems[i].value = emitted'[n].item[1].value
                 /\ selectedItems[i].deletable # "false"]_vars

\* A chip's delete button fired the removal, with no option committed,
\* while a pinned chip stayed.
C4_Witness ==
  /\ committed = <<>>
  /\ Len(emitted) = 2
  /\ emitted[1].cb = "onDelete"
  /\ emitted[2].cb = "onChangeSelected"
  /\ selectedItems = emitted[2].list
  /\ \E i \in 1..Len(selectedItems) : selectedItems[i].deletable = "false"

(* ------------------------------- C5 ----------------------------------- *)

\* C5: with a host that applies every onChangeSelected, toggling an
\* unselected item and then toggling it again leaves selectedItems as it
\* was before the first toggle, contents and order.
C5_RoundTrip == trip.phase = 2 => selectedItems = trip.orig

\* A round trip was completed on a selection that held a chip.
C5_Witness == trip.phase = 2 /\ trip.orig # <<>> /\ emitted # <<>>

(* ------------------------------- C6 ----------------------------------- *)

BlurRequest ==
  \/ OuterClick
  \/ \E to \in {"out", "chip"} : KeyDownOf("Escape", FALSE, to) \/ KeyDownOf("Tab", FALSE, to)

\* C6: every step from Focused to Blurred leaves the Focus Index at the
\* text-entry default and fires onBlur exactly once; an outer click, and
\* (outside a composition) an Escape or Tab keydown, take a Focused widget
\* to Blurred; on a Blurred widget they fire nothing and change neither the
\* Focused state, the Focus Index, the selection, the text nor the Active
\* Option.
C6_BlurOnce ==
  [][/\ (isFocused /\ ~isFocused')
          => focusedIndex' = Sentinel /\ CountCb(emitted', "onBlur") = 1
     /\ (isFocused /\ ~isComposing /\ BlurRequest) => ~isFocused'
     /\ (isFocused /\ OuterClick) => ~isFocused'
     /\ (~isFocused /\ BlurRequest)
          => /\ emitted' = <<>>
             /\ UNCHANGED << isFocused, focusedIndex, selectedItems, uncontrolledInputValue,
                             controlledInputValue, isComposing, activeOption >>]_vars

\* The widget was blurred with onBlur fired once.
C6_Witness ==
  /\ ~isFocused
  /\ emitted = <<EmitNone("onBlur")>>
  /\ focusedIndex = Sentinel
  /\ selectedItems # <<>>

(* ------------------------------- C7 ----------------------------------- *)

\* C7: the Active Option is none or an option of the current Visible
\* Option Set.
C7_ActiveIsVisible ==
  /\ activeOption = <<>> \/ activeOption[1] \in Range(options)
  /\ reportedActiveOption = <<>> \/ reportedActiveOption[1] \in Range(options)

\* An option is active while the text filters the catalog.
C7_Witness ==
  /\ activeOption # <<>>
  /\ inputValue # <<>>
  /\ ~activeOption[1].isCreatable
  /\ Len(options) <= Len(items)
  /\ selectedItems # <<>>

(* ------------------------------- C8 ----------------------------------- *)

\* C8: the Focus Index is the text-entry sentinel or the index of a chip
\* of the current selectedItems.
C8_FocusIndexValid ==
  focusedIndex = Sentinel \/ focusedIndex \in 0..(Len(selectedItems) - 1)

\* The selection shrank under a focused delete button, and the index was
\* brought back to a chip.
C8_Witness ==
  /\ clamped
  /\ focusedIndex = 0
  /\ Len(selectedItems) = 1

(* ------------------------------- C9 ----------------------------------- *)

\* C9: committing the synthetic option fires exactly onAdd with the typed
\* text: once, and no onSelect, onChangeSelected or onDelete.
C9_CreateFiresOnAdd ==
  [][(committed' # <<>> /\ committed'[1].isCreatable)
       => /\ creatable
          /\ \A i \in 1..Len(items) : items[i].label # inputValue
          /\ emitted' = <<Emit("onAdd", <<>>, <<>>, inputValue)>>]_vars

\* The synthetic option was committed.
C9_Witness ==
  /\ committed # <<>>
  /\ committed[1].isCreatable
  /\ Len(emitted) = 1
  /\ emitted[1].cb = "onAdd"
  /\ emitted[1].label # <<>>

(* ------------------------------- C10 ---------------------------------- *)

\* text occurs in label, character for character.
IsSubstring(text, label) ==
  \E from \in 0..Len(label) :
    /\ from + Len(text) <= Len(label)
    /\ \A n \in 1..Len(text) : label[from + n] = text[n]

\* The catalog items of the option list, in its order.
RealItems(opts) == [k \in 1..Cardinality({j \in 1..Len(opts) : ~opts[j].isCreatable}) |->
                      (SelectSeq(opts, LAMBDA o : ~o.isCreatable))[k].item]

\* C10: the catalog options of the Visible Option Set are exactly the
\* items whose label contains inputValue, in catalog order, whatever is
\* selected; and items Apple, Banana with the text "an" give Banana alone.
C10_VisibleIsFilter ==
  /\ RealItems(options) = SelectSeq(items, LAMBDA it : IsSubstring(inputValue, it.label))
  /\ inputValue = <<>> => RealItems(options) = items
  /\ RealItems(useOptions(items, selectedItems, creatable, <<"a", "n">>)) = <<items[2]>>

\* The text filters the catalog and a selected item is still listed.
C10_Witness ==
  /\ inputValue # <<>>
  /\ Len(RealItems(options)) = 1
  /\ \E i \in 1..Len(selectedItems) : AsItem(selectedItems[i]) \in Range(RealItems(options))

(* ------------------------------- C11 ---------------------------------- *)

\* C11 as stated: after an Arrow-left and the Arrow-right that follows it,
\* from any Focus Index on a chip, the Focus Index is the one it started from.
C11_RoundTripEverywhere ==
  (walk.phase = 2 /\ walk.start # Sentinel) => focusedIndex = walk.start

\* C11: after an Arrow-left and the Arrow-right that follows it, the Focus
\* Index is the index it started from when that was a chip other than the
\* first; from the first chip, where focusPrev clamps, it is one step on
\* from chip 0 (chip 1, or the text entry when there is one chip); it never
\* wraps around.
C11_RoundTripPastFirst ==
  (walk.phase = 2 /\ walk.start # Sentinel) =>
    IF walk.start >= 1 THEN focusedIndex = walk.start
    ELSE focusedIndex = (IF Len(selectedItems) > 1 THEN 1 ELSE Sentinel)

\* The pair was pressed from the second chip and came back to it.
C11_Witness == walk.phase = 2 /\ walk.start = 1 /\ focusedIndex = 1

\* The pair was pressed from the first of two chips and ended on the second.
C11_FirstChipDrifts == walk.phase = 2 /\ walk.start = 0 /\ focusedIndex = 1

(* ------------------------------- C12 ---------------------------------- *)

\* The step is a click on the delete button of a chip.
DeleteButtonClicked == \E i \in 0..(Len(selectedItems) - 1), apply \in BOOLEAN : ClickDeleteButtonOf(i, apply)

\* The text entry received the DOM focus in the step.
TextEntryTookFocus == domFocus # "input" /\ domFocus' = "input"

\* C12: a step from Blurred to Focused is a click inside the widget that is
\* not on a delete button, or one in which the text entry receives focus,
\* and it fires onFocus once; a click on a delete button while Blurred
\* leaves the widget Blurred.
C12_EntersFocused ==
  [][/\ (~isFocused /\ isFocused') =>
          /\ ClickContainer \/ TextEntryTookFocus
          /\ CountCb(emitted', "onFocus") = 1
     /\ (~isFocused /\ DeleteButtonClicked) => ~isFocused']_vars

\* The widget has just entered Focused beside two chips: onFocus alone was
\* fired and the text entry holds the DOM focus.
C12_Witness ==
  /\ isFocused
  /\ emitted = <<EmitNone("onFocus")>>
  /\ domFocus = "input"
  /\ Len(selectedItems) = 2

(* ------------------------------- C13 ---------------------------------- *)

\* C13: on every step from Blurred to Focused the text shown is empty when
\* the text value is uncontrolled, and is the host's inputValue when it is
\* controlled.
C13_FocusStartsEmpty ==
  [][(~isFocused /\ isFocused') =>
       IF isInputControlled THEN inputValue' = controlledInputValue'
       ELSE inputValue' = <<>> /\ uncontrolledInputValue' = <<>>]_vars

\* Text is typed into the text entry of a Blurred widget (after Escape the
\* DOM focus stays on it), uncontrolled.
C13_TextWhileBlurred == ~isFocused /\ ~isInputControlled /\ uncontrolledInputValue # <<>>

\* The widget has just entered Focused, uncontrolled, no chip shown, and
\* its text is empty.
C13_Witness ==
  /\ isFocused
  /\ ~isInputControlled
  /\ CountCb(emitted, "onFocus") = 1
  /\ selectedItems = <<>>
  /\ inputValue = <<>>

(* ------------------------------- C14 ---------------------------------- *)

\* The step leaves the Focused/Blurred state, the Focus Index and the Active
\* Option as they are and fires no callback, and a composition goes on.
KeyIgnored ==
  /\ isFocused' = isFocused
  /\ focusedIndex' = focusedIndex
  /\ activeOption' = activeOption
  /\ emitted' = <<>>
  /\ isComposing'

\* C14: while an IME composition is in progress, a keydown of any key
\* leaves the Focused/Blurred state, the Focus Index and the Active Option
\* as they are and fires no callback; the composition goes on.
C14_ComposingKeysIgnored ==
  [][(isComposing /\ KeyDown) => KeyIgnored]_vars

\* Mid-composition, Focused with an option active, Tab was pressed: the
\* browser moved the DOM focus to a delete button and the widget is as it was.
C14_Witness ==
  /\ isComposing
  /\ isFocused
  /\ activeOption # <<>>
  /\ domFocus = "chip"
  /\ focusedIndex = Sentinel
  /\ emitted = <<>>

(* ------------------------------- C15 ---------------------------------- *)

\* An Arrow-left keydown that is handled.
LeftPressed == ~isComposing /\ KeyDownOf("ArrowLeft", FALSE, "out")

\* C15: focusPrev (Arrow-left) moves the Focus Index from a chip i >= 1 to
\* chip i - 1, leaves it at chip 0 when it is there, and moves it from the
\* text entry to the last chip when there is a chip.
C15_FocusPrev ==
  [][LeftPressed =>
       /\ focusedIndex >= 1 => focusedIndex' = focusedIndex - 1
       /\ focusedIndex = 0 => focusedIndex' = 0
       /\ (focusedIndex = Sentinel /\ Len(selectedItems) >= 1)
            => focusedIndex' = Len(selectedItems) - 1]_vars

\* Arrow-left was pressed with the logical focus on the text entry and two
\* chips shown: the logical focus is on the second chip.
C15_Witness ==
  /\ walk.phase = 1
  /\ walk.start = Sentinel
  /\ Len(selectedItems) = 2
  /\ focusedIndex = 1

(* ------------------------------- C16 ---------------------------------- *)

\* An Arrow-right keydown that is handled.
RightPressed == ~isComposing /\ KeyDownOf("ArrowRight", FALSE, "out")

\* C16 as stated: while Focused with the logical focus on the text entry,
\* an Arrow-left or Arrow-right keydown leaves the Focus Index at the
\* text-entry sentinel.
C16_ArrowsStayOnTextEntry ==
  [][(isFocused /\ focusedIndex = Sentinel /\ (LeftPressed \/ RightPressed))
       => focusedIndex' = Sentinel]_vars

\* C16: while Focused with the logical focus on the text entry, an
\* Arrow-right keydown leaves the Focus Index at the text-entry sentinel,
\* and an Arrow-left keydown goes to the Focus Coordinator: the Focus Index
\* moves to the last chip when there is a chip and stays at the sentinel
\* when there is none.
C16_ArrowsFromTextEntry ==
  [][(isFocused /\ focusedIndex = Sentinel) =>
       /\ RightPressed => focusedIndex' = Sentinel
       /\ LeftPressed =>
            focusedIndex' = (IF selectedItems # <<>> THEN Len(selectedItems) - 1 ELSE Sentinel)]_vars

\* Focused, Arrow-left was pressed on the text entry: a chip's delete
\* button holds the logical and the DOM focus.
C16_Witness ==
  /\ isFocused
  /\ walk.phase = 1
  /\ walk.start = Sentinel
  /\ focusedIndex = Len(selectedItems) - 1
  /\ focusedIndex # Sentinel
  /\ domFocus = "chip"

(* ------------------------------- C17 ---------------------------------- *)

\* The keys with no branch of their own in the widget's key handler.
OtherKeys == Keys \ {"Escape", "Tab", "ArrowLeft", "ArrowRight"}

\* A keydown of such a key.
OtherKeyPressed == \E key \in OtherKeys, apply \in BOOLEAN : KeyDownOf(key, apply, "out")

\* C17: while Focused and not composing, after a keydown of any key other
\* than Escape, Tab, Arrow-left and Arrow-right the Focus Index is the
\* text-entry sentinel and the text entry holds the DOM focus; the key has
\* reached the Listbox Controller (Arrow-down moved the Active Option).
C17_OtherKeysResumeTextEntry ==
  [][(isFocused /\ ~isComposing /\ OtherKeyPressed) =>
       /\ focusedIndex' = Sentinel
       /\ domFocus' = "input"
       /\ (options # <<>> /\ KeyDownOf("ArrowDown", FALSE, "out")) => activeOption' # <<>>]_vars

\* Focused beside chips, Arrow-down was pressed: an option is active, and
\* the logical and the DOM focus are on the text entry.
C17_Witness ==
  /\ isFocused
  /\ ~isComposing
  /\ selectedItems # <<>>
  /\ activeOption # <<>>
  /\ focusedIndex = Sentinel
  /\ domFocus = "input"
  /\ emitted = <<>>

(* ------------------------------- C18 ---------------------------------- *)

\* An Arrow-down, an Arrow-up keydown handled with the dropdown open.
DownPressed == isFocused /\ ~isComposing /\ KeyDownOf("ArrowDown", FALSE, "out")

UpPressed == isFocused /\ ~isComposing /\ KeyDownOf("ArrowUp", FALSE, "out")

\* C18: with the option at position k of the Visible Option Set active,
\* Arrow-down makes the option at k + 1 active, or leaves the last one
\* active; Arrow-up makes the option at k - 1 active, or leaves the first
\* one active; while the Visible Option Set is empty the Active Option is
\* none after every keydown.
C18_NoWraparound ==
  [][/\ \A k \in 1..Len(options) :
          activeOption = <<options[k]>> =>
            /\ DownPressed =>
                 activeOption' = <<options[IF k < Len(options) THEN k + 1 ELSE k]>>
            /\ UpPressed =>
                 activeOption' = <<options[IF k > 1 THEN k - 1 ELSE k]>>
     /\ (options = <<>> /\ KeyDown) => activeOption' = <<>> /\ reportedActiveOption' = <<>>]_vars

\* Focused with every catalog item on offer, and the last of them active.
C18_Witness ==
  /\ isFocused
  /\ Len(options) = Len(items)
  /\ activeOption = <<options[Len(options)]>>
  /\ emitted = <<>>
  /\ committed = <<>>

\* Focused on a text that no option matches.
C18_NothingOnOffer == isFocused /\ options = <<>> /\ inputValue # <<>>

(* ------------------------------- C19 ---------------------------------- *)

\* C19: over every sequence of events the onFocus and onBlur callbacks
\* alternate, starting with onFocus, and the number of onFocus so far minus
\* the number of onBlur is 1 when the widget is Focused and 0 when Blurred.
C19_FocusBlurAlternate ==
  /\ focusLog.alternates
  /\ focusLog.count = (IF isFocused THEN 1 ELSE 0)

\* The widget has been Focused and has just been Blurred by a key, with the
\* DOM focus still on the text entry.
C19_Witness ==
  /\ ~isFocused
  /\ domFocus = "input"
  /\ emitted = <<EmitNone("onBlur")>>
  /\ focusLog = [count |-> 0, alternates |-> TRUE]

(* ------------------------------- C20 ---------------------------------- *)

\* C20: in uncontrolled mode every step in which selectedItems changes or
\* the widget goes from Blurred to Focused or back leaves the text empty;
\* in controlled mode no step writes the internal text value and the text
\* shown is the host's inputValue.
C20_TextReset ==
  [][IF isInputControlled
     THEN /\ uncontrolledInputValue' = uncontrolledInputValue
          /\ inputValue' = controlledInputValue'
     ELSE (selectedItems' # selectedItems \/ isFocused' # isFocused)
            => uncontrolledInputValue' = <<>> /\ inputValue' = <<>>]_vars

\* Uncontrolled and Focused: a chip was removed by re-selecting its item, the
\* host applied it, and the text is empty.
C20_Witness ==
  /\ ~isInputControlled
  /\ isFocused
  /\ Toggled
  /\ Len(emitted) = 2
  /\ emitted[1].cb = "onDelete"
  /\ selectedItems = emitted[2].list
  /\ uncontrolledInputValue = <<>>

\* Controlled, with a text of the host's shown and nothing kept inside.
C20_ControlledShown ==
  isInputControlled /\ inputValue # <<>> /\ uncontrolledInputValue = <<>>

(* ------------------------------- C21 ---------------------------------- *)

\* The entries of sel that equal the item by (label, value).
Copies(sel, item) == {i \in 1..Len(sel) : sel[i].label = item.label /\ sel[i].value = item.value}

\* C21: on every step that fires onDelete(item), the array given to
\* onChangeSelected has no entry equal to the item by (label, value), is
\* the entries of selectedItems that differ from it in their order, and
\* selectedItems itself is after the step what it was, or that array when
\* the host applied it.
C21_DeleteRemovesAllCopies ==
  [][(emitted' # <<>> /\ emitted'[1].cb = "onDelete") =>
       /\ Len(emitted') = 2
       /\ emitted'[2].cb = "onChangeSelected"
       /\ Copies(emitted'[2].list, emitted'[1].item[1]) = {}
       /\ emitted'[2].list = Minus(selectedItems, emitted'[1].item[1])
       /\ Len(emitted'[2].list)
            = Len(selectedItems) - Cardinality(Copies(selectedItems, emitted'[1].item[1]))
       /\ selectedItems' \in {selectedItems, emitted'[2].list}]_vars

\* An item selected twice was deleted: the array given to onChangeSelected
\* has neither copy, and selectedItems, which the host left alone, has both.
C21_Witness ==
  /\ Len(emitted) = 2
  /\ emitted[1].cb = "onDelete"
  /\ emitted[2].cb = "onChangeSelected"
  /\ emitted[2].list = <<>>
  /\ Len(selectedItems) = 2
  /\ Cardinality(Copies(selectedItems, emitted[1].item[1])) = 2

====
